---- MODULE Spec2Model ----
(***************************************************************************)
(* Model of src/main.py: the HTTP handler process_document.  One           *)
(* invocation answers a preflight, or validates the JSON body, downloads   *)
(* the file, sends it to Document AI, pushes the extracted text to         *)
(* Airtable and answers the caller.  The handler blocks on each outbound   *)
(* call, so an invocation is modelled as one action per call: the action   *)
(* makes the call, receives one of the outcomes the collaborator can       *)
(* produce, and runs the handler's code up to the next call or return.     *)
(***************************************************************************)
EXTENDS Integers, Sequences, FiniteSets, TLC

VARIABLES
    method,        \* request.method
    body,          \* the request body, as request.get_json() will see it
    pc,            \* position of the handler in the current invocation
    file_url,      \* local file_url
    file_content,  \* local file_content (response.content)
    text,          \* local text (document.text)
    printed,       \* the text preview written to the log
    exc,           \* the exception raised in this invocation, if any
    calls,         \* outbound calls made by this invocation, in order
    posted,        \* JSON payloads this invocation posted to Airtable
    created,       \* rows this invocation created in the Airtable table
    rows,          \* rows of the Airtable table (all invocations)
    responses,     \* responses this invocation returned
    served         \* invocations completed before the current one

vars == << method, body, pc, file_url, file_content, text, printed, exc,
           calls, posted, created, rows, responses, served >>

----------------------------------------------------------------------------
(* Bounds and program constants *)

MaxRequests == 2

HTTP_OK == 200
HTTP_NO_CONTENT == 204
HTTP_BAD_REQUEST == 400
HTTP_SERVER_ERROR == 500
PreviewLen == 500

----------------------------------------------------------------------------
(* Inputs: requests *)

Methods == {"OPTIONS", "POST", "GET", "PUT"}

GoodUrl == "https://example.com/doc.pdf"

UnsetUrl == [t |-> "unset", s |-> ""]

\* JSON values a "fileUrl" field can carry: a URL, the empty string, null.
FileUrlValues ==
    { [t |-> "string", s |-> GoodUrl],
      [t |-> "string", s |-> ""],
      [t |-> "null", s |-> ""] }

\* Parsed JSON values.  members: the keys of an object or the items of an
\* array; fileUrl: the value stored under "fileUrl"; n: a number's value.
JNull == [t |-> "null", members |-> {}, fileUrl |-> UnsetUrl, n |-> 0]
JNumber(k) == [t |-> "number", members |-> {}, fileUrl |-> UnsetUrl, n |-> k]
JArray(items) == [t |-> "array", members |-> items, fileUrl |-> UnsetUrl, n |-> 0]
JObject(keys, u) == [t |-> "object", members |-> keys, fileUrl |-> u, n |-> 0]

JsonValues ==
    { JNull, JNumber(0), JNumber(5),
      JArray({}), JArray({"fileUrl"}), JArray({"other"}),
      JObject({}, UnsetUrl), JObject({"other"}, UnsetUrl) }
    \cup { JObject({"fileUrl"}, u) : u \in FileUrlValues }
    \cup { JObject({"fileUrl", "other"}, u) : u \in FileUrlValues }

\* Request bodies: malformed JSON, a body whose content type is not JSON,
\* and well-formed JSON documents.
Bodies ==
    { [kind |-> "malformed", json |-> JNull],
      [kind |-> "not_json", json |-> JNull] }
    \cup { [kind |-> "json", json |-> j] : j \in JsonValues }

----------------------------------------------------------------------------
(* Inputs: what the collaborators can answer *)

X10 == "xxxxxxxxxx"
X100 == X10 \o X10 \o X10 \o X10 \o X10 \o X10 \o X10 \o X10 \o X10 \o X10
LongText == X100 \o X100 \o X100 \o X100 \o X100 \o "y"

Texts == {"", "Hello", LongText}

FetchStatuses == {200, 404}
Contents == {"", "%PDF-1.4 stub"}
PushStatuses == {200, 422, 500}

NoExc == [at |-> "none", type |-> "none", msg |-> ""]
Raise(at, type, msg) == [at |-> at, type |-> type, msg |-> msg]

\* Entries of calls: the call made and what came back (data: the content
\* downloaded, the text extracted, or the reply of the table service).
Returned(svc, status, data) ==
    [svc |-> svc, raised |-> FALSE, status |-> status, data |-> data]
Raised(svc) ==
    [svc |-> svc, raised |-> TRUE, status |-> 0, data |-> ""]

----------------------------------------------------------------------------
(* Responses *)

PreflightHeaders ==
    { <<"Access-Control-Allow-Origin", "*">>,
      <<"Access-Control-Allow-Methods", "POST">>,
      <<"Access-Control-Allow-Headers", "Content-Type">>,
      <<"Access-Control-Max-Age", "3600">> }

\* Variant: the error and success paths send no cross-origin header.
CorsHeadersNone == { }

CorsHeaders == { <<"Access-Control-Allow-Origin", "*">> }

\* Response bodies.  keys: the fields of the JSON object returned (none for
\* the empty body ''); the other fields hold their values.
EmptyBody == [keys |-> {}, success |-> FALSE, text |-> "", error |-> ""]
ErrorBody(msg) == [keys |-> {"error"}, success |-> FALSE, text |-> "", error |-> msg]
SuccessBody(t) ==
    [keys |-> {"success", "text"}, success |-> TRUE, text |-> t, error |-> ""]

Response(b, status, headers) == [body |-> b, status |-> status, headers |-> headers]

PreflightResponse == Response(EmptyBody, HTTP_NO_CONTENT, PreflightHeaders)

NoFileUrlResponse ==
    Response(ErrorBody("No file URL provided"), HTTP_BAD_REQUEST, CorsHeaders)

DownloadFailedResponse(status) ==
    Response(ErrorBody("Failed to download file: Status " \o ToString(status)),
             HTTP_BAD_REQUEST, CorsHeaders)

EmptyFileResponse ==
    Response(ErrorBody("Downloaded file is empty"), HTTP_BAD_REQUEST, CorsHeaders)

AirtableStatusResponse(status, reply) ==
    Response(ErrorBody("Failed to push to Airtable: Status " \o ToString(status)
                       \o ", Response: " \o reply),
             HTTP_SERVER_ERROR, CorsHeaders)

AirtableExceptionResponse(msg) ==
    Response(ErrorBody("Error making request to Airtable: " \o msg),
             HTTP_SERVER_ERROR, CorsHeaders)

SuccessResponse(t) == Response(SuccessBody(t), HTTP_OK, CorsHeaders)

\* Variant: the catch-all hides the exception's message.
CatchAllResponseGeneric(msg) ==
    Response(ErrorBody("Error processing document"), HTTP_SERVER_ERROR,
             { <<"Access-Control-Allow-Origin", "*">> })

CatchAllResponse(msg) ==
    Response(ErrorBody("Error processing document: " \o msg),
             HTTP_SERVER_ERROR, CorsHeaders)

----------------------------------------------------------------------------
(* Library behaviour the handler relies on *)

\* request.get_json(): a JSON body is parsed; a malformed body raises
\* BadRequest; a body that is not declared as JSON yields None or raises
\* UnsupportedMediaType, depending on the Flask release installed.
GetJson(b) ==
    CASE b.kind = "malformed" ->
           { [exc |-> Raise("get_json", "BadRequest",
                            "400 Bad Request: Failed to decode JSON object"),
              value |-> JNull] }
      [] b.kind = "not_json" ->
           { [exc |-> NoExc, value |-> JNull],
             [exc |-> Raise("get_json", "UnsupportedMediaType",
                            "415 Unsupported Media Type"),
              value |-> JNull] }
      [] OTHER -> { [exc |-> NoExc, value |-> b.json] }

\* Python truth value of a parsed JSON value (the operand of `not`).
Truthy(j) ==
    CASE j.t = "null" -> FALSE
      [] j.t = "number" -> j.n # 0
      [] OTHER -> j.members # {}

\* 'fileUrl' in request_json: key test on a dict, item test on a list,
\* TypeError on a number.
InRaises(j) == j.t = "number"
HasFileUrl(j) == "fileUrl" \in j.members

\* request_json['fileUrl']: defined on a dict, TypeError on a list.
SubscriptRaises(j) == j.t # "object"

\* str(url) as requests.get prepares it, and its scheme test.
UrlString(u) == IF u.t = "string" THEN u.s ELSE "None"
HasScheme(s) ==
    \/ Len(s) >= 7 /\ SubSeq(s, 1, 7) = "http://"
    \/ Len(s) >= 8 /\ SubSeq(s, 1, 8) = "https://"

\* requests.get(file_url): MissingSchema without a scheme; otherwise the
\* remote host answers with a status and a body, or the transport fails.
Get(u) ==
    IF ~HasScheme(UrlString(u))
    THEN { [exc |-> Raise("fetch", "RequestException",
                          "Invalid URL '" \o UrlString(u) \o "': No scheme supplied"),
            status |-> 0, content |-> ""] }
    ELSE { [exc |-> NoExc, status |-> st, content |-> c] :
              st \in FetchStatuses, c \in Contents }
         \cup { [exc |-> Raise("fetch", "RequestException", "Connection refused"),
                 status |-> 0, content |-> ""] }

\* DocumentProcessorServiceClient() and client.process_document(request).
ProcessDocument ==
    { [exc |-> Raise("client", "DefaultCredentialsError",
                     "Your default credentials were not found"),
       text |-> ""],
      [exc |-> Raise("process_document", "GoogleAPICallError",
                     "400 Invalid argument"),
       text |-> ""] }
    \cup { [exc |-> NoExc, text |-> t] : t \in Texts }

\* requests.post(airtable_url, ...): the service answers 200 after creating
\* the row and another status without creating it; when the call raises,
\* the request may or may not have reached the service.
Post ==
    { [exc |-> NoExc, status |-> st, reply |-> IF st = 200 THEN "{id}" ELSE "{error}",
       stored |-> (st = 200)] : st \in PushStatuses }
    \cup { [exc |-> Raise("push", ty, "Connection aborted"), status |-> 0,
            reply |-> "", stored |-> w] :
              ty \in {"RequestException", "Exception"}, w \in BOOLEAN }

----------------------------------------------------------------------------
(* The handler's own tests and values *)

\* Variant: the method is compared with the wrong spelling.
IsPreflightLower(m) == m = "options"

IsPreflight(m) == m = "OPTIONS"

NoFileUrl(j) == ~Truthy(j) \/ ~HasFileUrl(j)

\* Variant: only server errors of the file host count as a failed download.
DownloadFailedServerOnly(status) == status >= HTTP_SERVER_ERROR

DownloadFailed(status) == status # HTTP_OK

\* Variant: the emptiness test is missing.
EmptyFileNever(content) == FALSE

EmptyFile(content) == content = ""

Min(a, b) == IF a < b THEN a ELSE b
TextPreview(t) == SubSeq(t, 1, Min(Len(t), PreviewLen))

\* Variant: the record carries the logged preview instead of the text.
AirtableDataPreview(t) == [fields |-> [Document_AI_Response |-> TextPreview(t)]]

AirtableData(t) == [fields |-> [Document_AI_Response |-> t]]

\* Variant: every status below 500 counts as a successful push.
PushSucceededLenient(status) == status < HTTP_SERVER_ERROR

PushSucceeded(status) == status = HTTP_OK

\* Variant: the inner try has no except clause.
CaughtLocallyNever(e) == FALSE

CaughtLocally(e) == e.type = "RequestException"

----------------------------------------------------------------------------
(* State machine *)

Fresh(m, b) ==
    /\ method' = m
    /\ body' = b
    /\ pc' = "start"
    /\ file_url' = UnsetUrl
    /\ file_content' = ""
    /\ text' = ""
    /\ printed' = ""
    /\ exc' = NoExc
    /\ calls' = << >>
    /\ posted' = << >>
    /\ created' = << >>
    /\ responses' = << >>

Init ==
    /\ method \in Methods
    /\ body \in Bodies
    /\ pc = "start"
    /\ file_url = UnsetUrl
    /\ file_content = ""
    /\ text = ""
    /\ printed = ""
    /\ exc = NoExc
    /\ calls = << >>
    /\ posted = << >>
    /\ created = << >>
    /\ rows = << >>
    /\ responses = << >>
    /\ served = 0

\* return <response>: the invocation ends.
Return(r) ==
    /\ responses' = Append(responses, r)
    /\ pc' = "done"

\* An exception reaches `except Exception as e` of the outer try.
CatchAll(e) ==
    /\ exc' = e
    /\ Return(CatchAllResponse(e.msg))

\* Lines 22-29: the preflight is answered before anything else.
Preflight ==
    /\ pc = "start"
    /\ IsPreflight(method)
    /\ Return(PreflightResponse)
    /\ UNCHANGED << method, body, file_url, file_content, text, printed, exc,
                    calls, posted, created, rows, served >>

\* Lines 31-39: parse the body and take file_url from it.
ValidateInput ==
    /\ pc = "start"
    /\ ~IsPreflight(method)
    /\ \E o \in GetJson(body) :
         IF o.exc # NoExc
         THEN CatchAll(o.exc) /\ UNCHANGED file_url
         ELSE LET request_json == o.value IN
              IF ~Truthy(request_json)
              THEN Return(NoFileUrlResponse) /\ UNCHANGED << exc, file_url >>
              ELSE IF InRaises(request_json)
              THEN CatchAll(Raise("in", "TypeError",
                                  "argument of type 'int' is not iterable"))
                   /\ UNCHANGED file_url
              ELSE IF NoFileUrl(request_json)
              THEN Return(NoFileUrlResponse) /\ UNCHANGED << exc, file_url >>
              ELSE IF SubscriptRaises(request_json)
              THEN CatchAll(Raise("subscript", "TypeError",
                                  "list indices must be integers or slices, not str"))
                   /\ UNCHANGED file_url
              ELSE /\ file_url' = request_json.fileUrl
                   /\ pc' = "validated"
                   /\ UNCHANGED << exc, responses >>
    /\ UNCHANGED << method, body, file_content, text, printed,
                    calls, posted, created, rows, served >>

\* Lines 42-53: download the file and test the answer.
FetchFile ==
    /\ pc = "validated"
    /\ \E o \in Get(file_url) :
         IF o.exc # NoExc
         THEN /\ calls' = Append(calls, Raised("fetch"))
              /\ CatchAll(o.exc)
              /\ UNCHANGED file_content
         ELSE /\ calls' = Append(calls, Returned("fetch", o.status, o.content))
              /\ IF DownloadFailed(o.status)
                 THEN Return(DownloadFailedResponse(o.status))
                      /\ UNCHANGED << exc, file_content >>
                 ELSE /\ file_content' = o.content
                      /\ IF EmptyFile(o.content)
                         THEN Return(EmptyFileResponse) /\ UNCHANGED exc
                         ELSE pc' = "fetched" /\ UNCHANGED << exc, responses >>
    /\ UNCHANGED << method, body, file_url, text, printed,
                    posted, created, rows, served >>

\* Lines 55-98: build the client, process the document, log the result.
RunOCR ==
    /\ pc = "fetched"
    /\ \E o \in ProcessDocument :
         IF o.exc # NoExc
         THEN /\ calls' = IF o.exc.at = "client" THEN calls
                          ELSE Append(calls, Raised("ocr"))
              /\ CatchAll(o.exc)
              /\ UNCHANGED << text, printed >>
         ELSE /\ calls' = Append(calls, Returned("ocr", 0, o.text))
              /\ text' = o.text
              /\ printed' = TextPreview(o.text)
              /\ pc' = "processed"
              /\ UNCHANGED << exc, responses >>
    /\ UNCHANGED << method, body, file_url, file_content,
                    posted, created, rows, served >>

\* Lines 100-137: post the record to Airtable and answer the caller.
PushToTable ==
    /\ pc = "processed"
    /\ LET airtable_data == AirtableData(text) IN
       \E o \in Post :
         /\ posted' = Append(posted, airtable_data)
         /\ created' = IF o.stored THEN Append(created, airtable_data) ELSE created
         /\ rows' = IF o.stored THEN Append(rows, airtable_data) ELSE rows
         /\ IF o.exc # NoExc
            THEN /\ calls' = Append(calls, Raised("push"))
                 /\ IF CaughtLocally(o.exc)
                    THEN exc' = o.exc /\ Return(AirtableExceptionResponse(o.exc.msg))
                    ELSE CatchAll(o.exc)
            ELSE /\ calls' = Append(calls, Returned("push", o.status, o.reply))
                 /\ UNCHANGED exc
                 /\ IF PushSucceeded(o.status)
                    THEN Return(SuccessResponse(text))
                    ELSE Return(AirtableStatusResponse(o.status, o.reply))
    /\ UNCHANGED << method, body, file_url, file_content, text, printed, served >>

\* The hosting layer dispatches the next request to a fresh invocation.
NextRequest ==
    /\ pc = "done"
    /\ served + 1 < MaxRequests
    /\ served' = served + 1
    /\ \E m \in Methods, b \in Bodies : Fresh(m, b)
    /\ UNCHANGED rows

Next ==
    \/ Preflight
    \/ ValidateInput
    \/ FetchFile
    \/ RunOCR
    \/ PushToTable
    \/ NextRequest

Spec == Init /\ [][Next]_vars

----------------------------------------------------------------------------
(* Properties *)

Done == pc = "done" /\ Len(responses) = 1
Resp == responses[1]

\* s contains sub as a contiguous substring.
Mentions(s, sub) ==
    \E i \in 1..(Len(s) - Len(sub) + 1) : SubSeq(s, i, i + Len(sub) - 1) = sub

AllowOrigin == <<"Access-Control-Allow-Origin", "*">>

FetchOk(c) == c.svc = "fetch" /\ ~c.raised /\ c.status = 200 /\ c.data # ""
OcrOk(c) == c.svc = "ocr" /\ ~c.raised
PushOk(c) == c.svc = "push" /\ ~c.raised /\ c.status = 200

FullChain ==
    /\ Len(calls) = 3
    /\ FetchOk(calls[1]) /\ OcrOk(calls[2]) /\ PushOk(calls[3])

\* C1: when the fetch returns 200 with content, Document AI returns text T
\* and Airtable answers 200, the response is 200 {success: true, text: T}
\* and the one record posted is {fields: {Document_AI_Response: T}}.
C1_SuccessEchoesText ==
    FullChain =>
        /\ Done
        /\ Resp.status = 200
        /\ Resp.body.keys = {"success", "text"}
        /\ Resp.body.success = TRUE
        /\ Resp.body.text = calls[2].data
        /\ posted = << [fields |-> [Document_AI_Response |-> calls[2].data]] >>

C1_Witness == FullChain /\ Done /\ Len(calls[2].data) > PreviewLen

\* The body does not parse as JSON, or holds no non-empty fileUrl string.
InvalidInput(b) ==
    \/ b.kind # "json"
    \/ ~( /\ b.json.t = "object"
          /\ "fileUrl" \in b.json.members
          /\ b.json.fileUrl.t = "string"
          /\ b.json.fileUrl.s # "" )

\* C2: a non-OPTIONS request whose body does not parse as JSON or has no
\* non-empty fileUrl string is answered 400 with an error field.
C2_InvalidInputIs400 ==
    (Done /\ method # "OPTIONS" /\ InvalidInput(body)) =>
        /\ Resp.status = 400
        /\ "error" \in Resp.body.keys

FetchRejected(c) ==
    c.svc = "fetch" /\ ~c.raised /\ (c.status # 200 \/ c.data = "")

\* C3: when the GET of fileUrl returns a status other than 200, or 200 with
\* empty content, the response is 400 with an error describing the fetch
\* failure.
C3_FetchFailureIs400 ==
    (Len(calls) >= 1 /\ FetchRejected(calls[1])) =>
        /\ Done
        /\ Resp.status = 400
        /\ Resp.body.keys = {"error"}
        /\ IF calls[1].status # 200
           THEN Resp.body.error =
                  "Failed to download file: Status " \o ToString(calls[1].status)
           ELSE Resp.body.error = "Downloaded file is empty"

C3_Witness == Done /\ Len(calls) = 1 /\ FetchRejected(calls[1])
                   /\ calls[1].status = 200 /\ calls[1].data = ""

PushFailedTransport(c) == c.svc = "push" /\ c.raised /\ exc.type = "RequestException"
PushFailedStatus(c) == c.svc = "push" /\ ~c.raised /\ c.status # 200

\* C4: after a successful fetch and a successful Document AI call, a push
\* that returns a status other than 200 or raises a transport exception is
\* answered 500 with an error that mentions the Airtable failure, never 200.
C4_PushFailureIs500 ==
    (Len(calls) = 3 /\ (PushFailedStatus(calls[3]) \/ PushFailedTransport(calls[3]))) =>
        /\ Done
        /\ Resp.status = 500
        /\ Resp.body.keys = {"error"}
        /\ Mentions(Resp.body.error, "Airtable")
        /\ AllowOrigin \in Resp.headers

C4_Witness == Done /\ Len(calls) = 3 /\ PushFailedTransport(calls[3])

\* C5 (as stated): a 200 is returned only if the whole chain completed
\* and the push returned 200; every other outcome is an error response and
\* no row was created by the invocation.
C5_NoPartialSuccess ==
    (Done /\ method # "OPTIONS") =>
        /\ Resp.status = 200 => FullChain
        /\ Resp.status # 200 =>
              /\ Resp.status \in {400, 500}
              /\ "error" \in Resp.body.keys
              /\ created = << >>

\* C5 (amended): a 200 is returned only if the whole chain completed and
\* the push returned 200; every other outcome is an error response, and a
\* row was created next to an error response only when the push raised an
\* exception: never when the push was not made or returned another status.
C5_NoPartialSuccessUnlessPushRaised ==
    (Done /\ method # "OPTIONS") =>
        /\ Resp.status = 200 => FullChain /\ created = posted
        /\ Resp.status # 200 =>
              /\ Resp.status \in {400, 500}
              /\ "error" \in Resp.body.keys
              /\ created # << >> => (Len(calls) = 3 /\ calls[3].svc = "push"
                                                     /\ calls[3].raised)

C5_Witness == Done /\ Resp.status = 500 /\ created # << >>

\* C6: an exception of the Document AI step (client construction or
\* process_document) reaches the catch-all: 500 with an error carrying the
\* exception's message, and no push is attempted.
C6_OcrFailureIsUnclassified500 ==
    (exc.at \in {"client", "process_document"}) =>
        /\ Done
        /\ Resp.status = 500
        /\ Resp.body.keys = {"error"}
        /\ Mentions(Resp.body.error, exc.msg)
        /\ Mentions(Resp.body.error, "Error processing document")
        /\ posted = << >>
        /\ \A i \in 1..Len(calls) : calls[i].svc # "push"

C6_Witness == Done /\ exc.at = "process_document" /\ Len(calls) = 2

\* C7: an OPTIONS request is answered 204 with an empty body and the four
\* preflight headers, and makes no outbound call.
C7_PreflightIs204 ==
    (method = "OPTIONS") =>
        /\ calls = << >> /\ posted = << >> /\ created = << >>
        /\ pc = "done" =>
              /\ Len(responses) = 1
              /\ Resp.status = 204
              /\ Resp.body.keys = {}
              /\ Resp.headers = { <<"Access-Control-Allow-Origin", "*">>,
                                  <<"Access-Control-Allow-Methods", "POST">>,
                                  <<"Access-Control-Allow-Headers", "Content-Type">>,
                                  <<"Access-Control-Max-Age", "3600">> }

C7_Witness == method = "OPTIONS" /\ Done /\ body.kind = "json"
                  /\ body.json.fileUrl.s = GoodUrl

\* C8: every response, on every exit path, carries
\* Access-Control-Allow-Origin: *.
C8_EveryResponseAllowsAnyOrigin ==
    /\ pc = "done" => Len(responses) = 1
    /\ \A i \in 1..Len(responses) : AllowOrigin \in responses[i].headers

C8_Witness == Done /\ Resp.status = 500 /\ exc.at = "get_json"

\* C9: a request whose method is neither POST nor OPTIONS makes no outbound
\* call and is never answered 200.
C9_MainPathOnlyForPost ==
    (method \notin {"POST", "OPTIONS"}) =>
        /\ calls = << >>
        /\ \A i \in 1..Len(responses) : responses[i].status # 200

CallOk(c) == FetchOk(c) \/ OcrOk(c) \/ PushOk(c)

ChainOrder == << "fetch", "ocr", "push" >>

C10_Linear ==
    /\ Len(calls) <= 3
    /\ \A i \in 1..Len(calls) : calls[i].svc = ChainOrder[i]
    /\ \A i \in 1..Len(calls) : \A j \in 1..(i - 1) : CallOk(calls[j])
    /\ Len(responses) <= 1
    /\ (calls # << >> /\ ~CallOk(calls[Len(calls)])) =>
           (Done /\ Resp.status # 200 /\ "error" \in Resp.body.keys)

C10_NoCallAfterResponse ==
    (responses # << >> /\ served' = served) => UNCHANGED << calls, responses >>

\* C10: within one invocation each outbound call is made at most once, in
\* the order fetch, Document AI, push; a call is made only after the calls
\* before it succeeded; a failed step is followed by the single error
\* response and by no further call.
C10_LinearChain == [](C10_Linear) /\ [][C10_NoCallAfterResponse]_vars

C10_Witness == Done /\ Len(calls) = 2 /\ calls[2].raised

====
